---- MODULE Spec2Model ----
(***************************************************************************)
(* SateliteVisualizer.py: a single-threaded refresh loop.  One refresh     *)
(* cycle (update_visualizations) fetches natural events from the EONET     *)
(* feed, normalises them into a table, fetches the weather of every row,   *)
(* and writes a map file and a chart file.  The main block runs one cycle  *)
(* at startup, arms a 30 minute job of the `schedule` library and polls it *)
(* once per second until KeyboardInterrupt.                                *)
(*                                                                         *)
(* JSON objects are records (functions on strings); a key is present iff   *)
(* it is in the DOMAIN.  Time is counted in seconds.  Coordinates are      *)
(* integers (the comparisons of the code are against 90 and 180).          *)
(***************************************************************************)
EXTENDS Integers, Sequences, FiniteSets, TLC

VARIABLES
    pc,         \* position of the single thread of control
    ctx,        \* call site of the running cycle: "startup", "scheduled", "none"
    now,        \* wall clock, seconds since process start
    jobs,       \* schedule's job list: <<>> or <<[next_run |-> t]>>
    events_df,  \* local of update_visualizations: the event collection
    feedLog,    \* EONET requests made by the current fetch_satellite_data call
    markers,    \* local of create_interactive_map: popups added to the map so far
    weather,    \* local of create_interactive_map: results of fetch_weather_data, per row
    wxLog,      \* weather requests made in the current cycle
    mapFile,    \* enhanced_satellite_map.html
    chartFile,  \* interactive_events_plot.html
    log,        \* lines printed in the current cycle
    written,    \* files written in the current cycle
    before,     \* the two files as they were when the current cycle began
    execs,      \* number of cycles started so far
    waited,     \* has time.sleep(1) of the main loop been called yet
    execStart,  \* start time of the most recent cycle
    prevEnd     \* <<>> or <<t>>: when the cycle before the most recent one ended

vars == << pc, ctx, now, jobs, events_df, feedLog, markers, weather, wxLog,
           mapFile, chartFile, log, written, before, execs, waited, execStart, prevEnd >>

(***************************************************************************)
(* Program constants                                                       *)
(***************************************************************************)
Interval == 1800       \* schedule.every(30).minutes, in seconds
SleepStep == 1         \* time.sleep(1)
LonLimit == 180
LatLimit == 90

(***************************************************************************)
(* Bounds of the model                                                     *)
(***************************************************************************)
MaxEvents == 2         \* events per feed response (the code asks for at most 50)
MaxCallTime == 1       \* seconds a request to a remote service may block
MaxTime == 3606        \* the clock stops advancing here

(***************************************************************************)
(* Python helpers                                                          *)
(***************************************************************************)
Abs(x) == IF x < 0 THEN -x ELSE x

EmptyDict == [k \in {} |-> TRUE]

\* dict.get(key, default)
Get(d, key, default) == IF key \in DOMAIN d THEN d[key] ELSE default

\* a or b, for lists
Or(a, b) == IF Len(a) # 0 THEN a ELSE b

SeqsUpTo(S, n) == UNION { [1..k -> S] : k \in 0..n }

(***************************************************************************)
(* fetch_satellite_data: one feed record -> at most one row                *)
(***************************************************************************)
\* longitude = coords[0] if abs(coords[0]) <= 180 else coords[1]
Longitude(coords) == IF Abs(coords[1]) <= LonLimit THEN coords[1] ELSE coords[2]

\* variant: the bound 90 itself taken as out of range
LatitudeStrict(coords) == IF Abs(coords[2]) < LatLimit THEN coords[2] ELSE coords[1]
\* latitude = coords[1] if abs(coords[1]) <= 90 else coords[0]
Latitude(coords) == IF Abs(coords[2]) <= LatLimit THEN coords[2] ELSE coords[1]

\* geometries = event.get('geometries', []) or event.get('geometry', [])
Geometries(event) == Or(Get(event, "geometries", <<>>), Get(event, "geometry", <<>>))

\* does the loop body raise (KeyError, IndexError) on this record
EventRaises(event) ==
    LET geometries == Geometries(event) IN
    /\ Len(geometries) # 0
    /\ \/ "coordinates" \notin DOMAIN geometries[1]
       \/ /\ Len(geometries[1].coordinates) >= 2
          /\ \/ "title" \notin DOMAIN event
             \/ "categories" \notin DOMAIN event
             \/ /\ Len(event.categories) # 0
                /\ "title" \notin DOMAIN event.categories[1]
             \/ Len(Get(event, "geometry", <<EmptyDict>>)) = 0

\* the dict appended to `events` for a record that does not raise
EventRow(event) ==
    LET coords == Geometries(event)[1].coordinates IN
    [ title     |-> event.title,
      category  |-> IF Len(event.categories) # 0 THEN event.categories[1].title ELSE "Unknown",
      longitude |-> Longitude(coords),
      latitude  |-> Latitude(coords),
      date      |-> Get(Get(event, "geometry", <<EmptyDict>>)[1], "date", "Unknown") ]

\* what one iteration appends: nothing without a geometry or with fewer than two coordinates
EventRows(event) ==
    IF Len(Geometries(event)) # 0 /\ Len(Geometries(event)[1].coordinates) >= 2
    THEN << EventRow(event) >> ELSE << >>

\* variant: rows inserted at the front instead of appended
RECURSIVE BuildEventsPrepend(_, _)
BuildEventsPrepend(raw, events) ==
    IF Len(raw) = 0 THEN [raised |-> FALSE, events |-> events]
    ELSE IF EventRaises(Head(raw)) THEN [raised |-> TRUE, events |-> events]
    ELSE BuildEventsPrepend(Tail(raw), EventRows(Head(raw)) \o events)
\* for event in data['events']: ... events.append(...)
RECURSIVE BuildEvents(_, _)
BuildEvents(raw, events) ==
    IF Len(raw) = 0 THEN [raised |-> FALSE, events |-> events]
    ELSE IF EventRaises(Head(raw)) THEN [raised |-> TRUE, events |-> events]
    ELSE BuildEvents(Tail(raw), events \o EventRows(Head(raw)))

\* one pass of the body of `for status in ["open", "all"]` on a response
FetchOutcome(resp) ==
    IF ~resp.ok THEN [kind |-> "request_error", rows |-> << >>]
    ELSE IF "events" \notin DOMAIN resp.json THEN [kind |-> "unexpected", rows |-> << >>]
    ELSE IF Len(resp.json.events) = 0 THEN [kind |-> "none", rows |-> << >>]
    ELSE LET b == BuildEvents(resp.json.events, << >>) IN
         IF b.raised THEN [kind |-> "unexpected", rows |-> << >>]
         ELSE IF Len(b.events) # 0 THEN [kind |-> "rows", rows |-> b.events]
         ELSE [kind |-> "none", rows |-> << >>]

\* variant: the loop goes on to "all" although "open" gave rows
FallsBackAlways(status, out) == status = "open" /\ out.kind \in {"none", "rows"}
\* does the for loop go on to the next status after this pass
FallsBack(status, out) == status = "open" /\ out.kind = "none"

\* what fetch_satellite_data prints when it returns after this pass
FetchLine(out) ==
    CASE out.kind = "rows" -> {}
      [] out.kind = "none" -> {"No events found in EONET API response."}
      [] out.kind = "request_error" -> {"Error fetching satellite data"}
      [] out.kind = "unexpected" -> {"Unexpected error processing satellite data"}

\* variant: the emptiness test missing
DfEmptyNever(df) == FALSE
\* events_df.empty
DfEmpty(df) == Len(df) = 0

(***************************************************************************)
(* fetch_weather_data and the popup of create_interactive_map              *)
(***************************************************************************)
\* data.get("weather", [{}])[0] raises IndexError on an empty list
WeatherRaises(data) == "weather" \in DOMAIN data /\ Len(data.weather) = 0

Snapshot(data) ==
    [ temperature |-> Get(Get(data, "main", EmptyDict), "temp", "N/A"),
      humidity    |-> Get(Get(data, "main", EmptyDict), "humidity", "N/A"),
      weather     |-> Get(Get(data, "weather", <<EmptyDict>>)[1], "description", "N/A"),
      wind_speed  |-> Get(Get(data, "wind", EmptyDict), "speed", "N/A") ]

\* the return value: << >> is None, << s >> is the dict s
FetchWeather(resp) ==
    IF ~resp.ok \/ WeatherRaises(resp.json) THEN << >> ELSE << Snapshot(resp.json) >>

WeatherLine(resp) ==
    IF ~resp.ok THEN {"Weather API error"}
    ELSE IF WeatherRaises(resp.json) THEN {"Unexpected weather processing error"}
    ELSE {}

\* popup_content, as the list of its labelled parts
Popup(event, w) ==
    << <<"title", event.title>>, <<"Type", event.category>> >>
    \o (IF event.date # "Unknown" THEN << <<"Date", event.date>> >> ELSE << >>)
    \o (IF Len(w) # 0
        THEN << <<"Weather", w[1].weather>>, <<"Temp", w[1].temperature>>,
                <<"Humidity", w[1].humidity>>, <<"Wind", w[1].wind_speed>> >>
        ELSE << >>)

(***************************************************************************)
(* What the two remote services can answer                                 *)
(***************************************************************************)
Failed == [ok |-> FALSE]                      \* RequestException: transport, timeout, HTTP status
Json(data) == [ok |-> TRUE, json |-> data]

Wildfires == <<[title |-> "Wildfires"]>>
EvFire    == [title |-> "Wildfire A", categories |-> Wildfires,
              geometry |-> <<[coordinates |-> <<-118, 34>>, date |-> "2024-05-01"]>>]
EvStorm   == [title |-> "Storm B", categories |-> << >>,
              geometry |-> <<[coordinates |-> <<95, 10>>]>>]
EvNoGeom  == [title |-> "Volcano C", categories |-> Wildfires, geometry |-> << >>]
EvShort   == [title |-> "Flood D", categories |-> Wildfires,
              geometry |-> <<[coordinates |-> <<7>>, date |-> "2024-05-02"]>>]
EvOldKey  == [title |-> "Ice E", categories |-> Wildfires,
              geometries |-> <<[coordinates |-> <<20, 60, 5>>, date |-> "2024-05-03"]>>]
EvTwoKeys == [title |-> "Dust F", categories |-> Wildfires,
              geometries |-> <<[coordinates |-> <<30, 40>>]>>, geometry |-> << >>]
EvNoTitle == [categories |-> Wildfires, geometry |-> <<[coordinates |-> <<50, 60>>]>>]
EvNoKey   == [title |-> "Quake G", categories |-> Wildfires]
EvNoCoord == [title |-> "Haze H", categories |-> Wildfires, geometry |-> <<[date |-> "2024-05-04"]>>]

FeedEvents == {EvFire, EvStorm, EvNoGeom, EvShort, EvOldKey, EvTwoKeys, EvNoTitle, EvNoKey,
               EvNoCoord}

\* every answer to one EONET request
FeedResponses ==
    {Failed, Json(EmptyDict)} \cup { Json([events |-> l]) : l \in SeqsUpTo(FeedEvents, MaxEvents) }

\* the answers used where the whole refresh loop is explored
LoopResponses ==
    {Failed, Json([events |-> << >>]), Json([events |-> <<EvNoGeom>>]), Json([events |-> <<EvFire>>])}

\* answers with a single record carrying the coordinate pair <<a, b>>
CoordValues == {-200, -181, -180, -179, -91, -90, -89, 0, 10, 89, 90, 91, 95, 179, 180, 181, 200}
EvAt(a, b) == [title |-> "Storm B", categories |-> << >>, geometry |-> <<[coordinates |-> <<a, b>>]>>]
CoordResponses == { Json([events |-> <<EvAt(a, b)>>]) : a \in CoordValues, b \in CoordValues }

\* every answer to one weather request
MainValues    == { EmptyDict, [temp |-> "21.5"], [humidity |-> "40"], [temp |-> "21.5", humidity |-> "40"] }
WeatherValues == { << >>, <<EmptyDict>>, <<[description |-> "clear sky"]>> }
WindValues    == { EmptyDict, [speed |-> "3.2"] }
WeatherData ==
    { [main |-> m, weather |-> w, wind |-> v] : m \in MainValues, w \in WeatherValues, v \in WindValues }
    \cup { [weather |-> w, wind |-> v] : w \in WeatherValues, v \in WindValues }
    \cup { [main |-> m, wind |-> v] : m \in MainValues, v \in WindValues }
    \cup { [main |-> m, weather |-> w] : m \in MainValues, w \in WeatherValues }
    \cup { EmptyDict }
WeatherResponses == {Failed} \cup { Json(d) : d \in WeatherData }
FullWeather == [main |-> [temp |-> "21.5", humidity |-> "40"],
                weather |-> <<[description |-> "clear sky"]>>, wind |-> [speed |-> "3.2"]]
LoopWeatherResponses == {Failed, Json(FullWeather)}

CallTimes == 0..MaxCallTime

(***************************************************************************)
(* The refresh cycle: update_visualizations and what it calls              *)
(***************************************************************************)
NoFile == [exists |-> FALSE]
Terminal == {"stopped", "unwound", "crashed"}
Files == [map |-> mapFile, chart |-> chartFile]

\* entry of update_visualizations from call site c
Enter(c) ==
    /\ ctx' = c
    /\ pc' = "fetch_open"
    /\ log' = {"=== Updating visualizations"}
    /\ execs' = execs + 1
    /\ execStart' = now
    /\ before' = Files
    /\ written' = {}
    /\ feedLog' = << >>
    /\ wxLog' = << >>
    /\ UNCHANGED << now, events_df, markers, weather, mapFile, chartFile, waited, prevEnd >>

\* line 185
Startup ==
    /\ pc = "startup"
    /\ Enter("startup")
    /\ UNCHANGED jobs

\* one pass of the loop of fetch_satellite_data: the request and its processing
Request(resp, d) ==
    /\ pc \in {"fetch_open", "fetch_all"}
    /\ LET status == IF pc = "fetch_open" THEN "open" ELSE "all"
           out == FetchOutcome(resp)
       IN  /\ feedLog' = Append(feedLog, [status |-> status, limit |-> 50, response |-> resp])
           /\ now' = now + d
           /\ IF FallsBack(status, out)
              THEN /\ pc' = "fetch_all"
                   /\ UNCHANGED << events_df, log >>
              ELSE /\ pc' = "update"
                   /\ events_df' = out.rows
                   /\ log' = log \cup FetchLine(out)
    /\ UNCHANGED << ctx, jobs, markers, weather, wxLog, mapFile, chartFile, written, before,
                    execs, waited, execStart, prevEnd >>

\* lines 174-181
Update ==
    /\ pc = "update"
    /\ IF ~DfEmpty(events_df)
       THEN /\ log' = log \cup {"Found events"}
            /\ pc' = "map"
       ELSE /\ log' = log \cup {"No active satellite events found. Trying again later..."}
            /\ pc' = "ret"
    /\ UNCHANGED << ctx, now, jobs, events_df, feedLog, markers, weather, wxLog, mapFile,
                    chartFile, written, before, execs, waited, execStart, prevEnd >>

\* lines 86-94
MapEnter ==
    /\ pc = "map"
    /\ IF DfEmpty(events_df)
       THEN /\ log' = log \cup {"No events to display on map."}
            /\ pc' = "chart"
       ELSE /\ pc' = "map_loop"
            /\ UNCHANGED log
    /\ markers' = << >>
    /\ weather' = << >>
    /\ UNCHANGED << ctx, now, jobs, events_df, feedLog, wxLog, mapFile, chartFile, written,
                    before, execs, waited, execStart, prevEnd >>

\* one iteration of lines 96-120
Marker(resp, d) ==
    /\ pc = "map_loop"
    /\ Len(markers) < Len(events_df)
    /\ LET event == events_df[Len(markers) + 1]
           w == FetchWeather(resp)
       IN  /\ wxLog' = Append(wxLog, [lat |-> event.latitude, lon |-> event.longitude,
                                      timeout |-> 10, response |-> resp])
           /\ weather' = Append(weather, w)
           /\ log' = log \cup WeatherLine(resp)
           /\ markers' = Append(markers, [location |-> <<event.latitude, event.longitude>>,
                                          popup |-> Popup(event, w)])
           /\ now' = now + d
    /\ UNCHANGED << pc, ctx, jobs, events_df, feedLog, mapFile, chartFile, written,
                    before, execs, waited, execStart, prevEnd >>

\* lines 122-131; m.save raises when the file cannot be written
MapSave(ok) ==
    /\ pc = "map_loop"
    /\ Len(markers) = Len(events_df)
    /\ IF ok
       THEN /\ mapFile' = [exists |-> TRUE, markers |-> markers, updated |-> now]
            /\ written' = written \cup {"map"}
            /\ log' = log \cup {"Map saved as 'enhanced_satellite_map.html'."}
            /\ pc' = "chart"
       ELSE /\ pc' = "crashed"
            /\ UNCHANGED << mapFile, written, log >>
    /\ UNCHANGED << ctx, now, jobs, events_df, feedLog, markers, weather, wxLog, chartFile,
                    before, execs, waited, execStart, prevEnd >>

\* lines 135-166; fig.write_html raises when the file cannot be written
ChartWrite(ok) ==
    /\ pc = "chart"
    /\ IF DfEmpty(events_df)
       THEN /\ log' = log \cup {"No events to display in Plotly chart."}
            /\ pc' = "ret"
            /\ UNCHANGED << chartFile, written >>
       ELSE IF ok
       THEN /\ chartFile' = [exists |-> TRUE, points |-> events_df, updated |-> now]
            /\ written' = written \cup {"chart"}
            /\ log' = log \cup {"Plotly chart saved as 'interactive_events_plot.html'"}
            /\ pc' = "chart_show"
       ELSE /\ pc' = "crashed"
            /\ UNCHANGED << chartFile, written, log >>
    /\ UNCHANGED << ctx, now, jobs, events_df, feedLog, markers, weather, wxLog, mapFile,
                    before, execs, waited, execStart, prevEnd >>

\* line 167; fig.show raises when no renderer or browser can be used
ChartShow(ok) ==
    /\ pc = "chart_show"
    /\ pc' = IF ok THEN "ret" ELSE "crashed"
    /\ UNCHANGED << ctx, now, jobs, events_df, feedLog, markers, weather, wxLog, mapFile,
                    chartFile, log, written, before, execs, waited, execStart, prevEnd >>

(***************************************************************************)
(* The main block and the `schedule` job                                   *)
(***************************************************************************)
\* variant: the period one second short
NextRunEarly(t) == t + Interval - 1
\* Job._schedule_next_run: next_run = datetime.now() + period
NextRun(t) == t + Interval

\* Job.should_run: datetime.now() >= next_run
ShouldRun(job) == now >= job.next_run

\* update_visualizations returns to its caller; its locals are gone
Return ==
    /\ pc = "ret"
    /\ IF ctx = "startup"
       THEN /\ pc' = "arm"
            /\ UNCHANGED jobs
       ELSE /\ pc' = "sleep"
            /\ jobs' = << [next_run |-> NextRun(now)] >>
    /\ ctx' = "none"
    /\ prevEnd' = << now >>
    /\ events_df' = << >>
    /\ feedLog' = << >>
    /\ markers' = << >>
    /\ weather' = << >>
    /\ wxLog' = << >>
    /\ log' = {}
    /\ written' = {}
    /\ before' = Files
    /\ UNCHANGED << now, mapFile, chartFile, execs, waited, execStart >>

\* lines 188-191
Arm ==
    /\ pc = "arm"
    /\ jobs' = << [next_run |-> NextRun(now)] >>
    /\ pc' = "run_pending"
    /\ UNCHANGED << ctx, now, events_df, feedLog, markers, weather, wxLog, mapFile, chartFile,
                    log, written, before, execs, waited, execStart, prevEnd >>

\* line 195: schedule.run_pending() runs the job when it is due
RunPending ==
    /\ pc = "run_pending"
    /\ IF ShouldRun(jobs[1])
       THEN Enter("scheduled")
       ELSE /\ pc' = "sleep"
            /\ UNCHANGED << ctx, now, events_df, feedLog, markers, weather, wxLog, mapFile,
                            chartFile, log, written, before, execs, waited, execStart, prevEnd >>
    /\ UNCHANGED jobs

\* line 196
Sleep ==
    /\ pc = "sleep"
    /\ now < MaxTime
    /\ now' = now + SleepStep
    /\ waited' = TRUE
    /\ pc' = "run_pending"
    /\ UNCHANGED << ctx, jobs, events_df, feedLog, markers, weather, wxLog, mapFile, chartFile,
                    log, written, before, execs, execStart, prevEnd >>

\* is the thread inside the try block of lines 193-198
InTry == pc \in {"run_pending", "sleep"} \/ ctx = "scheduled"

\* KeyboardInterrupt: no `except Exception` catches it; only line 197 does
Interrupt ==
    /\ pc \notin Terminal
    /\ IF InTry
       THEN /\ pc' = "stopped"
            /\ log' = log \cup {"Script stopped by user."}
       ELSE /\ pc' = "unwound"
            /\ UNCHANGED log
    /\ UNCHANGED << ctx, now, jobs, events_df, feedLog, markers, weather, wxLog, mapFile,
                    chartFile, written, before, execs, waited, execStart, prevEnd >>

(***************************************************************************)
(* Specifications                                                          *)
(***************************************************************************)
Fresh ==
    /\ ctx = "none"
    /\ now = 0
    /\ jobs = << >>
    /\ events_df = << >>
    /\ feedLog = << >>
    /\ markers = << >>
    /\ weather = << >>
    /\ wxLog = << >>
    /\ mapFile = NoFile
    /\ chartFile = NoFile
    /\ log = {}
    /\ written = {}
    /\ before = [map |-> NoFile, chart |-> NoFile]
    /\ execs = 0
    /\ waited = FALSE
    /\ execStart = 0
    /\ prevEnd = << >>

\* the whole program
Init == Fresh /\ pc = "startup"

Next ==
    \/ Startup
    \/ \E resp \in LoopResponses, d \in CallTimes : Request(resp, d)
    \/ Update
    \/ MapEnter
    \/ \E resp \in LoopWeatherResponses, d \in CallTimes : Marker(resp, d)
    \/ \E ok \in BOOLEAN : MapSave(ok)
    \/ \E ok \in BOOLEAN : ChartWrite(ok)
    \/ \E ok \in BOOLEAN : ChartShow(ok)
    \/ Return
    \/ Arm
    \/ RunPending
    \/ Sleep
    \/ Interrupt

Spec == Init /\ [][Next]_vars

\* a state inside the startup cycle, as Startup and the steps before position p leave it
InCycle(p, df, requests, lines) ==
    /\ pc = p
    /\ ctx = "startup"
    /\ now = 0
    /\ jobs = << >>
    /\ events_df = df
    /\ feedLog = requests
    /\ markers = << >>
    /\ weather = << >>
    /\ wxLog = << >>
    /\ mapFile = NoFile
    /\ chartFile = NoFile
    /\ log = {"=== Updating visualizations"} \cup lines
    /\ written = {}
    /\ before = [map |-> NoFile, chart |-> NoFile]
    /\ execs = 1
    /\ waited = FALSE
    /\ execStart = 0
    /\ prevEnd = << >>

\* fetch_satellite_data on every answer of the feed; the clock is left alone
InitFetch == InCycle("fetch_open", << >>, << >>, {})
NextFetch == \E resp \in FeedResponses : Request(resp, 0)
SpecFetch == InitFetch /\ [][NextFetch]_vars

\* fetch_satellite_data on every coordinate pair
NextCoord == \E resp \in CoordResponses : Request(resp, 0)
SpecCoord == InitFetch /\ [][NextCoord]_vars

\* the marker loop of create_interactive_map on every answer of the weather service
InitWeather ==
    \E l \in {<<EvFire>>, <<EvStorm>>, <<EvFire, EvStorm>>} :
        InCycle("map_loop", BuildEvents(l, << >>).events,
                << [status |-> "open", limit |-> 50, response |-> Json([events |-> l])] >>,
                {"Found events"})
NextWeather == \E resp \in WeatherResponses : Marker(resp, 0)
SpecWeather == InitWeather /\ [][NextWeather]_vars

(***************************************************************************)
(* Properties                                                              *)
(***************************************************************************)
InCycleBody == pc \in {"update", "map", "map_loop", "chart", "chart_show", "ret"}
LastResponse == feedLog[Len(feedLog)].response
HasEvents(resp) == resp.ok /\ "events" \in DOMAIN resp.json
HasGeometry(event) == Len(Geometries(event)) # 0
HasPair(event) ==
    /\ HasGeometry(event)
    /\ Len(Get(Geometries(event)[1], "coordinates", << >>)) >= 2
ErrorLines == {"Error fetching satellite data", "Unexpected error processing satellite data"}
NoEventsLine == "No active satellite events found. Trying again later..."
TitleOf(event) == Get(event, "title", "?")
SameTitles(rows, events) ==
    /\ Len(rows) = Len(events)
    /\ \A k \in 1..Len(rows) : rows[k].title = TitleOf(events[k])

\* C1: no failure inside a refresh cycle, at startup or scheduled, ever ends the
\* process: the thread never leaves a cycle by an uncaught exception.
C1_FailureNeverEndsProcess == pc # "crashed"

\* C2: exactly one cycle runs before the first timer wait, and every later cycle
\* starts at least the full interval after the cycle before it ended (hence also
\* after it began, and after the job was armed); cycles never overlap.
C2_IntervalBetweenCycles ==
    /\ (~waited => execs <= 1)
    /\ (pc \in {"arm", "run_pending", "sleep"} => execs >= 1)
    /\ (ctx # "none" /\ Len(prevEnd) # 0 => execStart >= prevEnd[1] + Interval)
    /\ (ctx = "scheduled" => execs >= 2 /\ Len(prevEnd) # 0)
    /\ (ctx = "none" => pc \notin {"fetch_open", "fetch_all"} /\ ~InCycleBody)

C2_Witness == execs = 3 /\ ctx = "scheduled" /\ pc = "ret" /\ execStart = prevEnd[1] + Interval

\* C3: whenever the process has ended, it ended by the interrupt handler of the main
\* loop, with the stop message printed: never by an uncaught unwind.
C3_OnlyCleanInterruptEnds ==
    pc \in Terminal => pc = "stopped" /\ "Script stopped by user." \in log

\* C4: in a cycle whose event collection is empty, both files are exactly as they
\* were when the cycle began, neither was written, no weather request was made,
\* and at the end of the cycle the "no events" line has been printed.
C4_EmptyCycleWritesNothing ==
    (ctx # "none" /\ InCycleBody /\ Len(events_df) = 0) =>
        /\ mapFile = before.map
        /\ chartFile = before.chart
        /\ written = {}
        /\ Len(wxLog) = 0
        /\ (pc = "ret" => NoEventsLine \in log)
        /\ pc \in {"update", "ret"}

C4_Witness ==
    /\ pc = "ret" /\ Len(events_df) = 0 /\ Len(feedLog) = 2
    /\ mapFile.exists /\ chartFile.exists

\* C5 as claimed: the "all" request is made exactly when the "open" response
\* carried no events; requests are at most two, "open" then "all".
C5_AllOnlyWhenOpenHasNoEvents ==
    /\ Len(feedLog) <= 2
    /\ \A k \in 1..Len(feedLog) : feedLog[k].status = <<"open", "all">>[k]
    /\ (Len(feedLog) = 2 =>
            HasEvents(feedLog[1].response) /\ Len(feedLog[1].response.json.events) = 0)
    /\ (pc = "update" /\ HasEvents(feedLog[1].response)
            /\ Len(feedLog[1].response.json.events) = 0 => Len(feedLog) = 2)

\* C5 amended: the "all" request is made exactly when the "open" response was a
\* well-formed events list that yielded no row (no event in it has a geometry
\* whose first entry carries two coordinates); a failed or malformed "open"
\* response ends the call; requests are at most two, "open" then "all"; when
\* "open" yields rows they are the result.
C5_AllWhenOpenYieldsNoRow ==
    /\ Len(feedLog) <= 2
    /\ \A k \in 1..Len(feedLog) : feedLog[k].status = <<"open", "all">>[k]
    /\ (Len(feedLog) = 2 =>
            /\ HasEvents(feedLog[1].response)
            /\ \A k \in 1..Len(feedLog[1].response.json.events) :
                    ~HasPair(feedLog[1].response.json.events[k]))
    /\ (pc = "update" /\ Len(feedLog) = 1 /\ HasEvents(LastResponse) =>
            \/ \E k \in 1..Len(LastResponse.json.events) : HasPair(LastResponse.json.events[k])
            \/ log \cap ErrorLines # {})
    /\ (pc = "update" /\ Len(feedLog) = 1 /\ log \cap ErrorLines = {} =>
            SameTitles(events_df, SelectSeq(LastResponse.json.events, HasPair)))

C5_Witness ==
    /\ pc = "update" /\ Len(feedLog) = 2
    /\ Len(feedLog[1].response.json.events) = 2
    /\ Len(events_df) # 0

\* C6 as claimed: from a response with at least one geometry-bearing event,
\* processed without an error line, the collection has one row per
\* geometry-bearing event, in feed order.
C6_OneRowPerGeometry ==
    (pc = "update" /\ log \cap ErrorLines = {} /\ HasEvents(LastResponse)
        /\ \E k \in 1..Len(LastResponse.json.events) : HasGeometry(LastResponse.json.events[k]))
    => SameTitles(events_df, SelectSeq(LastResponse.json.events, HasGeometry))

\* C6 amended: when no error line was printed, the collection has one row per
\* event whose geometry's first entry carries at least two coordinates, in feed
\* order, duplicates kept; when an error line was printed it is empty.
C6_OneRowPerCoordinatePair ==
    pc = "update" =>
        IF log \cap ErrorLines = {}
        THEN SameTitles(events_df, SelectSeq(LastResponse.json.events, HasPair))
        ELSE Len(events_df) = 0

C6_Witness ==
    /\ pc = "update" /\ log \cap ErrorLines = {}
    /\ Len(events_df) = 1
    /\ Len(SelectSeq(LastResponse.json.events, HasGeometry)) = 2
    /\ HasPair(LastResponse.json.events[2])

\* the coordinate pair the feed supplied in the single record of the last response
Supplied == LastResponse.json.events[1].geometry[1].coordinates

\* C7: a value whose magnitude exceeds 90 is stored as the longitude and the
\* other value as the latitude, whichever position it is supplied in.
C7_LargeValueIsLongitude ==
    pc = "update" =>
        LET a == Supplied[1]
            b == Supplied[2]
        IN  /\ (Abs(a) <= 90 /\ 90 < Abs(b) /\ Abs(b) <= 180 =>
                    events_df[1].longitude = b /\ events_df[1].latitude = a)
            /\ (90 < Abs(a) /\ Abs(a) <= 180 /\ Abs(b) <= 90 =>
                    events_df[1].longitude = a /\ events_df[1].latitude = b)

\* C8: every stored row has its longitude in [-180, 180] and its latitude in
\* [-90, 90].
C8_StoredInRange ==
    \A k \in 1..Len(events_df) :
        Abs(events_df[k].longitude) <= 180 /\ Abs(events_df[k].latitude) <= 90

\* C9: a pair with longitude in [-180, 180] and latitude in [-90, 90], bounds
\* included, is stored unchanged, and correcting the stored pair again changes
\* nothing.
C9_ValidPairUnchanged ==
    (pc = "update" /\ Abs(Supplied[1]) <= 180 /\ Abs(Supplied[2]) <= 90) =>
        /\ Len(events_df) = 1
        /\ events_df[1].longitude = Supplied[1]
        /\ events_df[1].latitude = Supplied[2]
        /\ Longitude(<<events_df[1].longitude, events_df[1].latitude>>) = events_df[1].longitude
        /\ Latitude(<<events_df[1].longitude, events_df[1].latitude>>) = events_df[1].latitude

C9_Witness ==
    /\ pc = "update" /\ Supplied = <<-180, 90>>
    /\ events_df[1].longitude = -180 /\ events_df[1].latitude = 90

\* C10: a failed weather request gives None; a successful one gives a snapshot in
\* which exactly the missing fields are "N/A"; a row whose weather is None gets a
\* popup with title, type and known date and no weather part.
C10_WeatherDegradesPerField ==
    \A k \in 1..Len(weather) :
        LET resp == wxLog[k].response
            w == weather[k]
            labels == { markers[k].popup[j][1] : j \in 1..Len(markers[k].popup) }
        IN  /\ (~resp.ok => Len(w) = 0)
            /\ (resp.ok =>
                    /\ Len(w) = 1
                    /\ w[1].temperature = Get(Get(resp.json, "main", EmptyDict), "temp", "N/A")
                    /\ w[1].humidity = Get(Get(resp.json, "main", EmptyDict), "humidity", "N/A")
                    /\ w[1].wind_speed = Get(Get(resp.json, "wind", EmptyDict), "speed", "N/A")
                    /\ w[1].weather =
                          IF "weather" \in DOMAIN resp.json /\ Len(resp.json.weather) # 0
                          THEN Get(resp.json.weather[1], "description", "N/A")
                          ELSE "N/A")
            /\ (Len(w) = 0 =>
                    labels = {"title", "Type"}
                             \cup (IF events_df[k].date # "Unknown" THEN {"Date"} ELSE {}))

====
